---- MODULE Spec2Model ----
(***************************************************************************)
(* A model of whynot.py: a bounded jump stack (class Stack), the           *)
(* single-pass compiler Program.compile and the virtual machine            *)
(* Program.execute, run in sequence as main() runs them.                   *)
(*                                                                         *)
(* Representation.  A Python list of fixed size that starts filled with a  *)
(* default value (Stack.arr, Program.instructions, the tape `data`) is the *)
(* finite map of its entries that differ from the default; At reads an     *)
(* index and Put writes one.  A text is a sequence of one-character        *)
(* strings.  A str of output is the sequence of its code points.           *)
(***************************************************************************)
EXTENDS Integers, Sequences, FiniteSets, TLC

PROGRAM_SIZE == 4096
STACK_SIZE == 512
DATA_SIZE == 65535

\* Longest source text enumerated character by character.
MaxLen == 4

VARIABLES
    fp,              \* the source text handed to compile
    at,              \* where main() is: "start", "compiled", "execute", "done",
                     \* "raised"; "stack" when a Stack is used by itself
    text,            \* fp.strip(), the text the loop of compile iterates over
    k,               \* 1-based index in text of the character compile stopped at
    cpc,             \* compile's local pc when it returned
    stack,           \* self.stack: [ptr, arr]
    instructions,    \* self.instructions
    compile_status,  \* what compile returned: "None" until it returns
    compile_line,    \* the source line of the return statement compile took
    data,            \* execute's tape
    pc,              \* execute's program counter
    ptr,             \* execute's data pointer
    print_buffer,    \* self.print_buffer
    execute_status,  \* what execute returned: "None" until it returns
    execute_line,    \* the source line of the return statement execute took
    exception,       \* the exception that ended execute, "None" if none did
    stdout,          \* the calls of print(), in order: Printed(line, str)
    last,            \* the last call made on a Stack used by itself
    ref,             \* the values a plain sequence holds after the same calls
    calls            \* the number of such calls made

compile_vars == <<text, k, cpc, stack, instructions, compile_status, compile_line>>

execute_vars == <<data, pc, ptr, print_buffer, execute_status, execute_line, exception>>

stack_vars == <<last, ref, calls>>

vars == <<fp, at, compile_vars, execute_vars, stdout, stack_vars>>

----------------------------------------------------------------------------
\* Fixed-size lists with a default value.

EmptyList == [j \in {} |-> 0]

At(a, i, d) == IF i \in DOMAIN a THEN a[i] ELSE d

Put(a, i, v, d) ==
    IF v = d
    THEN [j \in DOMAIN a \ {i} |-> a[j]]
    ELSE IF i \in DOMAIN a THEN [a EXCEPT ![i] = v] ELSE a @@ (i :> v)

Rep(c, n) == [i \in 1..n |-> c]

\* One call of print(): the source line of the call and, for the call that
\* prints print_buffer, the str printed (the fixed message of line 138 is
\* not spelled out).
Printed(line, str) == [line |-> line, str |-> str]

----------------------------------------------------------------------------
\* class Stack

\* Optional[int]: None, or the one value.
None == <<>>

Some(v) == <<v>>

NewStack == [ptr |-> 0, arr |-> EmptyList]

\* push that stores one slot too high, and push whose test lets a full
\* stack through.
push_WritesAbove(s, a) ==
    IF s.ptr >= STACK_SIZE
    THEN [s |-> s, val |-> None, err |-> "OverFlow"]
    ELSE [s |-> [ptr |-> s.ptr + 1, arr |-> Put(s.arr, s.ptr + 1, a, 0)],
          val |-> None, err |-> "None"]

push_LateOverflow(s, a) ==
    IF s.ptr > STACK_SIZE
    THEN [s |-> s, val |-> None, err |-> "OverFlow"]
    ELSE [s |-> [ptr |-> s.ptr + 1, arr |-> Put(s.arr, s.ptr, a, 0)],
          val |-> None, err |-> "None"]

\* push returns (None, error); s is the stack after the call.
push(s, a) ==
    IF s.ptr >= STACK_SIZE
    THEN [s |-> s, val |-> None, err |-> "OverFlow"]
    ELSE [s |-> [ptr |-> s.ptr + 1, arr |-> Put(s.arr, s.ptr, a, 0)],
          val |-> None, err |-> "None"]

\* pop with the read of arr before the decrement of ptr.
pop_ReadsAbove(s) ==
    IF s.ptr = 0
    THEN [s |-> s, val |-> None, err |-> "UnderFlow"]
    ELSE [s |-> [ptr |-> s.ptr - 1, arr |-> s.arr],
          val |-> Some(At(s.arr, s.ptr, 0)), err |-> "None"]

\* pop returns (value, error); s is the stack after the call.
pop(s) ==
    IF s.ptr = 0
    THEN [s |-> s, val |-> None, err |-> "UnderFlow"]
    ELSE [s |-> [ptr |-> s.ptr - 1, arr |-> s.arr],
          val |-> Some(At(s.arr, s.ptr - 1, 0)), err |-> "None"]

\* is_empty that is never true.
is_empty_Never(s) == s.ptr < 0

is_empty(s) == s.ptr = 0

\* is_full that compares with one more than the capacity.
is_full_Late(s) == s.ptr = 513

is_full(s) == s.ptr = 512

----------------------------------------------------------------------------
\* class Instruction, Program.__init__

Instruction(operator, operand) == [operator |-> operator, operand |-> operand]

UnknownInstruction == Instruction("Unknown", 0)

InstrAt(ins, i) == At(ins, i, UnknownInstruction)

SetOperator(ins, i, op) ==
    Put(ins, i, Instruction(op, InstrAt(ins, i).operand), UnknownInstruction)

SetOperand(ins, i, n) ==
    Put(ins, i, Instruction(InstrAt(ins, i).operator, n), UnknownInstruction)

----------------------------------------------------------------------------
\* Source texts

Whitespace == {" "}

Alphabet == {">", "<", "+", "-", ".", ",", "[", "]", "x", " "}

Strip(s) ==
    LET keep == {i \in 1..Len(s) : s[i] \notin Whitespace}
        lo == CHOOSE i \in keep : \A j \in keep : i <= j
        hi == CHOOSE i \in keep : \A j \in keep : j <= i
    IN IF keep = {} THEN <<>> ELSE SubSeq(s, lo, hi)

ShortTexts == UNION {[1..n -> Alphabet] : n \in 0..MaxLen}

\* n pairs of brackets, one after the other, and n brackets within each other.
Pairs(n) == [i \in 1..2 * n |-> IF i % 2 = 1 THEN "[" ELSE "]"]

Nested(n) == Rep("[", n) \o Rep("]", n)

\* n increments of the current cell, then one output of it.
PlusOut(n) == Rep("+", n) \o <<".">>

\* Texts that reach the capacity of the instruction list and of the stack:
\* PROGRAM_SIZE - 1 commands, PROGRAM_SIZE commands, one character more than
\* that; STACK_SIZE brackets within each other, one more than that, and the
\* same followed by one more closing bracket; the longest PlusOut that fits
\* the instruction list and the first that does not.
LongTexts ==
    {<<"[">> \o Rep(">", PROGRAM_SIZE - 3) \o <<"]">>,
     Pairs(PROGRAM_SIZE \div 2),
     Pairs(PROGRAM_SIZE \div 2) \o <<"]">>,
     Nested(STACK_SIZE),
     Nested(STACK_SIZE + 1),
     Nested(STACK_SIZE + 1) \o <<"]">>,
     PlusOut(PROGRAM_SIZE - 2),
     PlusOut(PROGRAM_SIZE - 1)}

\* The program of the specification's loop example.
LoopText ==
    Rep("+", 8) \o <<"[", ">">> \o Rep("+", 8) \o <<"<", "-", "]", ">", ".">>

Texts == ShortTexts \cup LongTexts \cup {LoopText}

----------------------------------------------------------------------------
\* Program.compile

OperatorOf(c) ==
    CASE c = ">" -> "OpIncDp"
      [] c = "<" -> "OpDecDp"
      [] c = "+" -> "OpIncVal"
      [] c = "-" -> "OpDecVal"
      [] c = "." -> "OpOut"
      [] c = "," -> "OpIn"

\* The test of line 89: the loop goes on while pc < PROGRAM_SIZE.
HasRoom(p) == p < PROGRAM_SIZE

\* The default case leaving a cursor that is at 0 where it is.
Skip_NotAtZero(p) == IF p = 0 THEN p ELSE p - 1

\* The default case without its pc -= 1.
Skip_Stays(p) == p

\* The default case of the match (line 129) and the step of line 131.
Skip(p) == p - 1

Advance(p) == p + 1

\* The final check without the stack, and without the capacity.
FinalCheckFails_NoStack(s, p) == p = PROGRAM_SIZE

FinalCheckFails_NoCapacity(s, p) == ~is_empty(s)

\* The test of line 133.
FinalCheckFails(s, p) == ~is_empty(s) \/ p = PROGRAM_SIZE

\* The state of one call of compile: the index k of the next character of the
\* text, the locals, the two lists of self, and the return taken ("None"
\* and 0 while the call runs).
CompileState(k_, pc_, stack_, instructions_, status_, line_) ==
    [k |-> k_, pc |-> pc_, stack |-> stack_, instructions |-> instructions_,
     status |-> status_, line |-> line_]

CompileReturn(cs, status, line) == [cs EXCEPT !.status = status, !.line = line]

\* The for loop runs another iteration: compile has not returned, a
\* character is left and the test of line 89 lets it through.
LoopRuns(cs, t) == cs.status = "None" /\ cs.k <= Len(t) /\ HasRoom(cs.pc)

\* One iteration of the for loop, on the character t[cs.k] (lines 89-131).
CompileChar(cs, t) ==
    LET c == t[cs.k] IN
    CASE c \in {">", "<", "+", "-", ".", ","} ->
            [cs EXCEPT !.instructions = SetOperator(@, cs.pc, OperatorOf(c)),
                       !.pc = Advance(@),
                       !.k = @ + 1]
      [] c = "[" ->
            LET written == [cs EXCEPT !.instructions = SetOperator(@, cs.pc, "OpJmpFwd")]
            IN IF is_full(cs.stack)
               THEN CompileReturn(written, "Failure", 109)
               ELSE [written EXCEPT !.stack = push(@, cs.pc).s,
                                    !.pc = Advance(@),
                                    !.k = @ + 1]
      [] c = "]" ->
            IF is_empty(cs.stack)
            THEN CompileReturn(cs, "Failure", 115)
            ELSE LET result == pop(cs.stack)
                     popped == [cs EXCEPT !.stack = result.s]
                 IN IF result.val = None
                    THEN CompileReturn(popped, "Failure", 122)
                    ELSE LET jmp_pc == result.val[1]
                             i1 == SetOperator(cs.instructions, cs.pc, "OpJmpBck")
                             i2 == SetOperand(i1, cs.pc, jmp_pc)
                         IN [popped EXCEPT !.instructions = SetOperand(i2, jmp_pc, cs.pc),
                                           !.pc = Advance(@),
                                           !.k = @ + 1]
      [] OTHER ->
            [cs EXCEPT !.pc = Advance(Skip(@)), !.k = @ + 1]

\* The iterations of the for loop on the characters t[lo..hi], in order,
\* for as long as the loop runs.
RECURSIVE CompileLoop(_, _, _, _)
CompileLoop(cs, t, lo, hi) ==
    IF lo > hi \/ ~LoopRuns(cs, t) THEN cs
    ELSE IF lo = hi THEN CompileChar(cs, t)
    ELSE LET mid == (lo + hi) \div 2
         IN CompileLoop(CompileLoop(cs, t, lo, mid), t, mid + 1, hi)

\* After the loop (the text is exhausted, or the break of line 90): the
\* final check, the terminator and the return (lines 133-140).
CompileEnd(cs) ==
    IF cs.status # "None" THEN cs
    ELSE IF FinalCheckFails(cs.stack, cs.pc)
    THEN CompileReturn(cs, "Failure", 134)
    ELSE CompileReturn([cs EXCEPT !.instructions = SetOperator(@, cs.pc, "OpEnd")],
                       "Success", 140)

\* compile(fp) on a Program with the stack s and the instructions ins.
compile(s, ins, source) ==
    LET t == Strip(source)
    IN CompileEnd(CompileLoop(CompileState(1, 0, s, ins, "None", 0), t, 1, Len(t)))

\* main() calls compile on the Program it has constructed.
Compile ==
    /\ at = "start"
    /\ \E cs \in {compile(stack, instructions, fp)} :
        /\ text' = Strip(fp)
        /\ k' = cs.k
        /\ cpc' = cs.pc
        /\ stack' = cs.stack
        /\ instructions' = cs.instructions
        /\ compile_status' = cs.status
        /\ compile_line' = cs.line
        /\ stdout' = IF cs.status = "Success"
                      THEN Append(stdout, Printed(138, <<>>))
                      ELSE stdout
    /\ at' = "compiled"
    /\ UNCHANGED <<fp, execute_vars, stack_vars>>

----------------------------------------------------------------------------
\* Program.execute

\* Largest magnitude of a tape cell, most cells that differ from zero and
\* longest print_buffer the machine is followed to.
MaxVal == 64
MaxCells == 3
MaxOut == 2

\* data[p] of a Python list of DATA_SIZE cells: a negative p counts from the
\* end, and p outside -DATA_SIZE..DATA_SIZE-1 raises IndexError.
ValidIndex(p) == p >= -DATA_SIZE /\ p < DATA_SIZE

Index(p) == IF p < 0 THEN p + DATA_SIZE ELSE p

Cell(d, p) == At(d, Index(p), 0)

SetCell(d, p, v) == Put(d, Index(p), v, 0)

\* chr giving the character after the one asked for.
chr_Next(v) == IF v >= 0 /\ v < 1114111 THEN Some(<<v + 1>>) ELSE None

\* chr(v): the one-character str of code point v, None for the ValueError.
chr(v) == IF v >= 0 /\ v <= 1114111 THEN Some(<<v>>) ELSE None

\* The lines input() may read, as texts; EOF is the end of the input stream.
InputLines == {<<"0">>, <<"2">>, <<"-", "1">>, <<" ", "1">>, <<"x">>, <<>>}

EOF == <<"EOF">>

DigitValue(c) ==
    CASE c = "0" -> 0 [] c = "1" -> 1 [] c = "2" -> 2 [] c = "3" -> 3
      [] c = "4" -> 4 [] c = "5" -> 5 [] c = "6" -> 6 [] c = "7" -> 7
      [] c = "8" -> 8 [] c = "9" -> 9

Digits == {"0", "1", "2", "3", "4", "5", "6", "7", "8", "9"}

RECURSIVE Decimal(_)
Decimal(ds) ==
    IF ds = <<>> THEN 0
    ELSE 10 * Decimal(SubSeq(ds, 1, Len(ds) - 1)) + DigitValue(ds[Len(ds)])

\* int(line): surrounding whitespace stripped, an optional sign, then one or
\* more decimal digits; None for the ValueError.
int(line) ==
    LET t == Strip(line)
        signed == t # <<>> /\ t[1] \in {"+", "-"}
        ds == IF signed THEN Tail(t) ELSE t
    IN IF ds # <<>> /\ \A i \in 1..Len(ds) : ds[i] \in Digits
       THEN Some(IF signed /\ t[1] = "-" THEN -Decimal(ds) ELSE Decimal(ds))
       ELSE None

\* The jumps with their tests the wrong way round.
JmpFwd_Inverted(p, operand, v) == IF v # 0 THEN operand ELSE p

JmpBck_Inverted(p, operand, v) == IF v = 0 THEN operand ELSE p

\* The backward jump taken whatever the cell holds.
JmpBck_Always(p, operand, v) == operand

\* The forward jump landing one place past its partner.
JmpFwd_Past(p, operand, v) == IF v = 0 THEN operand + 1 ELSE p

\* The jumps of lines 163-164 and 166-167: the pc before the pc += 1.
JmpFwd(p, operand, v) == IF v = 0 THEN operand ELSE p

JmpBck(p, operand, v) == IF v # 0 THEN operand ELSE p

\* execute as a value: where it is, its locals, print_buffer and how it ended.
ExecuteState(a, d, p, dp, buf, status, line, exc) ==
    [at |-> a, data |-> d, pc |-> p, ptr |-> dp, print_buffer |-> buf,
     execute_status |-> status, execute_line |-> line, exception |-> exc]

\* An exception nothing catches ends execute: no value is returned.
Raise(st, exc) == [st EXCEPT !.at = "raised", !.exception = exc]

WithinBounds(d, buf) ==
    /\ \A i \in DOMAIN d : d[i] <= MaxVal /\ d[i] >= -MaxVal
    /\ Cardinality(DOMAIN d) <= MaxCells
    /\ Len(buf) <= MaxOut

\* execute starting on a Program whose instructions it has reset.
ExecuteEnter_Resets ==
    /\ at = "compiled"
    /\ compile_status = "Success"
    /\ at' = "execute"
    /\ data' = EmptyList
    /\ pc' = 0
    /\ ptr' = 0
    /\ instructions' = EmptyList
    /\ UNCHANGED <<fp, text, k, cpc, stack, compile_status, compile_line,
                   print_buffer, execute_status, execute_line, exception,
                   stdout, stack_vars>>

\* main() calls execute after a successful compile: a fresh tape, pc = 0,
\* ptr = 0.
ExecuteEnter ==
    /\ at = "compiled"
    /\ compile_status = "Success"
    /\ at' = "execute"
    /\ data' = EmptyList
    /\ pc' = 0
    /\ ptr' = 0
    /\ UNCHANGED <<fp, compile_vars, print_buffer, execute_status, execute_line,
                   exception, stdout, stack_vars>>

\* The test of the while loop (line 147).  instructions[pc] is read first:
\* a pc past the end of the list raises IndexError (pc is never negative).
PcInList(p) == p < PROGRAM_SIZE

\* The test letting ptr = DATA_SIZE through.
LoopGoesOn_Late(ins, p, dp) ==
    InstrAt(ins, p).operator # "OpEnd" /\ dp <= DATA_SIZE

\* The test with a lower bound on ptr as well.
LoopGoesOn_Symmetric(ins, p, dp) ==
    InstrAt(ins, p).operator # "OpEnd" /\ dp < DATA_SIZE /\ dp >= 0

\* The condition of the while loop.
LoopGoesOn(ins, p, dp) == InstrAt(ins, p).operator # "OpEnd" /\ dp < DATA_SIZE

\* The body of the while loop (lines 149-171) on the state st, input() giving
\* line where the instruction reads one: the match, then pc += 1.
Iteration(ins, st, line) ==
    LET i == InstrAt(ins, st.pc)
        op == i.operator
        v == Cell(st.data, st.ptr)
    IN
    CASE op = "OpIncDp" -> [st EXCEPT !.ptr = @ + 1, !.pc = @ + 1]
      [] op = "OpDecDp" -> [st EXCEPT !.ptr = @ - 1, !.pc = @ + 1]
      [] op = "OpIncVal" ->
            IF ~ValidIndex(st.ptr) THEN Raise(st, "IndexError")
            ELSE [st EXCEPT !.data = SetCell(@, st.ptr, v + 1), !.pc = @ + 1]
      [] op = "OpDecVal" ->
            IF ~ValidIndex(st.ptr) THEN Raise(st, "IndexError")
            ELSE [st EXCEPT !.data = SetCell(@, st.ptr, v - 1), !.pc = @ + 1]
      [] op = "OpOut" ->
            IF ~ValidIndex(st.ptr) THEN Raise(st, "IndexError")
            ELSE IF chr(v) = None THEN Raise(st, "ValueError")
            ELSE [st EXCEPT !.print_buffer = @ \o chr(v)[1], !.pc = @ + 1]
      [] op = "OpIn" ->
            IF line = EOF THEN Raise(st, "EOFError")
            ELSE IF int(line) = None THEN Raise(st, "ValueError")
            ELSE IF ~ValidIndex(st.ptr) THEN Raise(st, "IndexError")
            ELSE [st EXCEPT !.data = SetCell(@, st.ptr, int(line)[1]),
                            !.pc = @ + 1]
      [] op = "OpJmpFwd" ->
            IF ~ValidIndex(st.ptr) THEN Raise(st, "IndexError")
            ELSE [st EXCEPT !.pc = JmpFwd(@, i.operand, v) + 1]
      [] op = "OpJmpBck" ->
            IF ~ValidIndex(st.ptr) THEN Raise(st, "IndexError")
            ELSE [st EXCEPT !.pc = JmpBck(@, i.operand, v) + 1]
      [] OTHER ->
            [st EXCEPT !.at = "done", !.execute_status = "Failure",
                       !.execute_line = 169]

\* The test of the while loop and, if it lets the loop go on, the body.  A
\* state in which the loop has ended, or execute has, is left as it is.
WhileStep(ins, st, line) ==
    IF st.at # "execute" THEN st
    ELSE IF ~PcInList(st.pc) THEN Raise(st, "IndexError")
    ELSE IF LoopGoesOn(ins, st.pc, st.ptr) THEN Iteration(ins, st, line)
    ELSE st

\* The lines input() can give the instruction at pc: only OpIn reads one.
LinesRead(ins, p) ==
    IF InstrAt(ins, p).operator = "OpIn" THEN InputLines \cup {EOF} ELSE {EOF}

\* One iteration of the while loop: the instruction at pc, then pc += 1.
ExecuteStep ==
    /\ at = "execute"
    /\ PcInList(pc) => LoopGoesOn(instructions, pc, ptr)
    /\ \E line \in LinesRead(instructions, pc) :
        \E st \in {WhileStep(instructions,
                        ExecuteState(at, data, pc, ptr, print_buffer,
                                     execute_status, execute_line, exception),
                        line)} :
            /\ WithinBounds(st.data, st.print_buffer)
            /\ at' = st.at
            /\ data' = st.data
            /\ pc' = st.pc
            /\ ptr' = st.ptr
            /\ print_buffer' = st.print_buffer
            /\ execute_status' = st.execute_status
            /\ execute_line' = st.execute_line
            /\ exception' = st.exception
    /\ UNCHANGED <<fp, compile_vars, stdout, stack_vars>>

\* The return printing print_buffer whatever it returns.
ExecuteReturn_PrintsAlways ==
    /\ at = "execute"
    /\ PcInList(pc)
    /\ ~LoopGoesOn(instructions, pc, ptr)
    /\ at' = "done"
    /\ stdout' = Append(stdout, Printed(175, print_buffer))
    /\ execute_status' = IF ptr # DATA_SIZE THEN "Success" ELSE "Failure"
    /\ execute_line' = IF ptr # DATA_SIZE THEN 176 ELSE 178
    /\ UNCHANGED <<fp, compile_vars, data, pc, ptr, print_buffer, exception,
                   stack_vars>>

\* The while loop has ended: the match on ptr != DATA_SIZE and the return.
ExecuteReturn ==
    /\ at = "execute"
    /\ PcInList(pc)
    /\ ~LoopGoesOn(instructions, pc, ptr)
    /\ at' = "done"
    /\ IF ptr # DATA_SIZE
       THEN /\ stdout' = Append(stdout, Printed(175, print_buffer))
            /\ execute_status' = "Success"
            /\ execute_line' = 176
       ELSE /\ execute_status' = "Failure"
            /\ execute_line' = 178
            /\ UNCHANGED stdout
    /\ UNCHANGED <<fp, compile_vars, data, pc, ptr, print_buffer, exception,
                   stack_vars>>

----------------------------------------------------------------------------
\* A Stack used by itself: any calls of its four methods, on a new Stack or
\* on one that compile has filled.

\* Most calls made on the Stack, and the values pushed.
MaxCalls == 5

PushValues == {7, 8}

\* The opening brackets compile has pushed before the calls start.
StartSizes == {0, STACK_SIZE - 2}

Call(op, before, val, err, bool) ==
    [op |-> op, before |-> before, val |-> val, err |-> err, bool |-> bool]

NoCall == Call("None", NewStack, None, "None", FALSE)

StackPush(a) ==
    /\ calls < MaxCalls
    /\ LET r == push(stack, a) IN
        /\ stack' = r.s
        /\ last' = Call("push", stack, r.val, r.err, FALSE)
        /\ ref' = IF Len(ref) < STACK_SIZE THEN Append(ref, a) ELSE ref
    /\ calls' = calls + 1
    /\ UNCHANGED <<fp, at, text, k, cpc, instructions, compile_status,
                   compile_line, execute_vars, stdout>>

StackPop ==
    /\ calls < MaxCalls
    /\ LET r == pop(stack) IN
        /\ stack' = r.s
        /\ last' = Call("pop", stack, r.val, r.err, FALSE)
        /\ ref' = IF ref = <<>> THEN ref ELSE SubSeq(ref, 1, Len(ref) - 1)
    /\ calls' = calls + 1
    /\ UNCHANGED <<fp, at, text, k, cpc, instructions, compile_status,
                   compile_line, execute_vars, stdout>>

StackIsEmpty ==
    /\ calls < MaxCalls
    /\ last' = Call("is_empty", stack, None, "None", is_empty(stack))
    /\ calls' = calls + 1
    /\ UNCHANGED <<fp, at, compile_vars, execute_vars, stdout, ref>>

StackIsFull ==
    /\ calls < MaxCalls
    /\ last' = Call("is_full", stack, None, "None", is_full(stack))
    /\ calls' = calls + 1
    /\ UNCHANGED <<fp, at, compile_vars, execute_vars, stdout, ref>>

\* The Stack is new, or is the one compile leaves behind after it has read
\* n opening brackets: it holds their positions 0..n-1.
InitStack ==
    /\ \E n \in StartSizes :
        /\ fp = Rep("[", n)
        /\ stack = compile(NewStack, EmptyList, fp).stack
        /\ ref = [i \in 1..n |-> i - 1]
    /\ at = "stack"
    /\ text = <<>>
    /\ k = 0
    /\ cpc = 0
    /\ instructions = EmptyList
    /\ compile_status = "None"
    /\ compile_line = 0
    /\ data = EmptyList
    /\ pc = 0
    /\ ptr = 0
    /\ print_buffer = <<>>
    /\ execute_status = "None"
    /\ execute_line = 0
    /\ exception = "None"
    /\ stdout = <<>>
    /\ last = NoCall
    /\ calls = 0

NextStack ==
    \/ \E a \in PushValues : StackPush(a)
    \/ StackPop
    \/ StackIsEmpty
    \/ StackIsFull

SpecStack == InitStack /\ [][NextStack]_vars

----------------------------------------------------------------------------
\* main(): a Program is constructed, compiled and, if that succeeds, executed.

Init ==
    /\ fp \in Texts
    /\ at = "start"
    /\ text = <<>>
    /\ k = 0
    /\ cpc = 0
    /\ stack = NewStack
    /\ instructions = EmptyList
    /\ compile_status = "None"
    /\ compile_line = 0
    /\ data = EmptyList
    /\ pc = 0
    /\ ptr = 0
    /\ print_buffer = <<>>
    /\ execute_status = "None"
    /\ execute_line = 0
    /\ exception = "None"
    /\ stdout = <<>>
    /\ last = NoCall
    /\ ref = <<>>
    /\ calls = 0

Next ==
    \/ Compile
    \/ ExecuteEnter
    \/ ExecuteStep
    \/ ExecuteReturn

Spec == Init /\ [][Next]_vars

----------------------------------------------------------------------------
\* A run that reaches the top of the tape.  A text of fewer than PROGRAM_SIZE
\* commands moves ptr to DATA_SIZE only through a loop, in several hundred
\* thousand iterations of the while loop; the run is taken up a few cells
\* below the top, in the state the iterations before have left.

\* The tape cells left to walk when a run is taken up.
TapeTail == 3

\* Output the cell, read it, then while it is not zero: clear it, step
\* right, read the cell; after the loop one more step right.
InputWalk == <<".", ",", "[", "[", "-", "]", ">", ",", "]", ">">>

\* The line input() gives at every read of the iterations before.
WalkLine == <<"2">>

\* The iterations of the while loop after which the run of InputWalk, reading
\* WalkLine, enters the body of its loop with ptr = cells: 3 to enter it the
\* first time and 8 for each cell.
WalkSteps(cells) == 3 + 8 * cells

\* n iterations of the while loop from the state st, input() giving line;
\* fewer if execute ends before.
RECURSIVE Run(_, _, _, _)
Run(ins, st, line, n) ==
    IF n = 0 \/ st.at # "execute" THEN st
    ELSE IF n = 1 THEN WhileStep(ins, st, line)
    ELSE Run(ins, Run(ins, st, line, n \div 2), line, n - n \div 2)

\* execute as it starts (lines 143-145) on a Program that has printed nothing.
ExecuteStart == ExecuteState("execute", EmptyList, 0, 0, <<>>, "None", 0, "None")

InitTape ==
    /\ fp = InputWalk
    /\ text = Strip(fp)
    /\ \E cs \in {compile(NewStack, EmptyList, fp)} :
        /\ k = cs.k
        /\ cpc = cs.pc
        /\ stack = cs.stack
        /\ instructions = cs.instructions
        /\ compile_status = cs.status
        /\ compile_line = cs.line
        /\ \E st \in {Run(cs.instructions, ExecuteStart, WalkLine,
                          WalkSteps(DATA_SIZE - TapeTail))} :
            /\ at = st.at
            /\ data = st.data
            /\ pc = st.pc
            /\ ptr = st.ptr
            /\ print_buffer = st.print_buffer
            /\ execute_status = st.execute_status
            /\ execute_line = st.execute_line
            /\ exception = st.exception
    /\ stdout = <<Printed(138, <<>>)>>
    /\ last = NoCall
    /\ ref = <<>>
    /\ calls = 0

\* main() on every text, and the run taken up below the top of the tape.
SpecTape == (Init \/ InitTape) /\ [][Next]_vars

----------------------------------------------------------------------------
\* What a source text says, read without the compiler: its commands and how
\* its brackets match.

Commands == {">", "<", "+", "-", ".", ",", "[", "]"}

IsCommand(ch) == ch \in Commands

Cmds(s) == SelectSeq(s, IsCommand)

Delta(ch) == IF ch = "[" THEN 1 ELSE IF ch = "]" THEN -1 ELSE 0

\* Depths(c)[n]: the opening minus the closing brackets among c[1..n].
RECURSIVE DepthsFrom(_, _, _, _)
DepthsFrom(c, lo, hi, base) ==
    IF lo > hi THEN <<>>
    ELSE IF lo = hi THEN <<base + Delta(c[lo])>>
    ELSE LET mid == (lo + hi) \div 2
             left == DepthsFrom(c, lo, mid, base)
         IN left \o DepthsFrom(c, mid + 1, hi, left[Len(left)])

Depths(c) == DepthsFrom(c, 1, Len(c), 0)

DepthBefore(dep, n) == IF n = 1 THEN 0 ELSE dep[n - 1]

\* The bracket opened at i is closed at j: j is the first place after i where
\* the depth is back to what it was before i.
IsMatch(dep, i, j) ==
    /\ i < j
    /\ dep[j] = dep[i] - 1
    /\ \A m \in i..(j - 1) : dep[m] >= dep[i]

\* Some closing bracket has no opening bracket left to close.
HasUnmatchedClose(dep) == \E n \in 1..Len(dep) : dep[n] < 0

FirstUnmatchedClose(dep) ==
    CHOOSE n \in 1..Len(dep) : dep[n] < 0 /\ \A m \in 1..(n - 1) : dep[m] >= 0

\* Some opening bracket is never closed.
HasUnclosedOpen(c, dep) ==
    \E i \in 1..Len(c) :
        c[i] = "[" /\ \A j \in (i + 1)..Len(c) : dep[j] >= dep[i]

Balanced(dep) ==
    /\ \A n \in 1..Len(dep) : dep[n] >= 0
    /\ Len(dep) > 0 => dep[Len(dep)] = 0

DeeperThan(dep, d) == \E n \in 1..Len(dep) : dep[n] > d

\* The operator each command stands for.
CommandOperator(ch) ==
    CASE ch = ">" -> "OpIncDp" [] ch = "<" -> "OpDecDp"
      [] ch = "+" -> "OpIncVal" [] ch = "-" -> "OpDecVal"
      [] ch = "." -> "OpOut" [] ch = "," -> "OpIn"
      [] ch = "[" -> "OpJmpFwd" [] ch = "]" -> "OpJmpBck"

\* compile has just returned.
Compiled == at = "compiled"

CompiledOk == at = "compiled" /\ compile_status = "Success"

----------------------------------------------------------------------------
\* C1: after a compile that returns Success the jumps are linked both ways:
\* an OpJmpFwd at i with operand j has an OpJmpBck with operand i at j > i,
\* an OpJmpBck at j with operand i has an OpJmpFwd with operand j at i, and
\* the linked pairs are the matching bracket pairs of the source.
C1_JumpsLinked ==
    CompiledOk =>
        LET c == Cmds(fp)
            dep == Depths(c)
            n == cpc
        IN /\ Len(c) = n
           /\ \A i \in 0..(n - 1) :
                LET ins == InstrAt(instructions, i) IN
                /\ c[i + 1] = "[" <=> ins.operator = "OpJmpFwd"
                /\ c[i + 1] = "]" <=> ins.operator = "OpJmpBck"
                /\ ins.operator = "OpJmpFwd" =>
                      /\ i < ins.operand /\ ins.operand < n
                      /\ InstrAt(instructions, ins.operand) = Instruction("OpJmpBck", i)
                      /\ IsMatch(dep, i + 1, ins.operand + 1)
                /\ ins.operator = "OpJmpBck" =>
                      /\ 0 <= ins.operand /\ ins.operand < i
                      /\ InstrAt(instructions, ins.operand) = Instruction("OpJmpFwd", i)

\* The text [[]] has compiled: the outer pair encloses the inner one.
C1_Witness ==
    /\ CompiledOk
    /\ InstrAt(instructions, 0) = Instruction("OpJmpFwd", 3)
    /\ InstrAt(instructions, 1) = Instruction("OpJmpFwd", 2)
    /\ InstrAt(instructions, 2) = Instruction("OpJmpBck", 1)
    /\ InstrAt(instructions, 3) = Instruction("OpJmpBck", 0)

\* C2 as stated: a source with a closing bracket that has no opening bracket
\* to close fails with the unmatched-close failure (line 115), whatever else
\* is wrong with it.
C2_AsStated ==
    Compiled =>
        (HasUnmatchedClose(Depths(Cmds(fp))) =>
            compile_status = "Failure" /\ compile_line = 115)

\* C2: a source with an unmatched closing bracket fails to compile.  The
\* failure is the unmatched-close failure, raised at the first such bracket,
\* when the scan gets that far; it is the overflow of the jump stack when an
\* opening bracket before it is read with STACK_SIZE brackets open, and the
\* final check when PROGRAM_SIZE or more commands come before it.
C2_UnmatchedClose ==
    Compiled =>
        LET c == Cmds(fp)
            dep == Depths(c)
            j == FirstUnmatchedClose(dep)
            overflow ==
                \E m \in 1..(j - 1) :
                    /\ m <= PROGRAM_SIZE
                    /\ c[m] = "["
                    /\ DepthBefore(dep, m) = STACK_SIZE
        IN HasUnmatchedClose(dep) =>
            /\ compile_status = "Failure"
            /\ IF overflow THEN compile_line = 109
               ELSE IF j > PROGRAM_SIZE THEN compile_line = 134
               ELSE /\ compile_line = 115
                    /\ cpc = j - 1
                    /\ text[k] = "]"
                    /\ is_empty(stack)

\* The text []] has failed at its second closing bracket.
C2_Witness ==
    /\ Compiled
    /\ Cmds(fp) = <<"[", "]", "]">>
    /\ compile_status = "Failure"
    /\ compile_line = 115
    /\ cpc = 2

\* C3 as stated: a source with an opening bracket that is never closed fails
\* in the final check, after the whole text has been scanned.
C3_AsStated ==
    Compiled =>
        LET c == Cmds(fp) IN
        HasUnclosedOpen(c, Depths(c)) =>
            /\ compile_status = "Failure"
            /\ compile_line = 134
            /\ k > Len(text)

\* C3: a source with an opening bracket that is never closed fails to
\* compile, and a compile that returns Success leaves the jump stack empty.
\* The failure is that of the final check, with the jump stack not empty
\* and the whole text scanned, unless the text also has an unmatched closing
\* bracket, nests deeper than STACK_SIZE or has PROGRAM_SIZE or more
\* commands: then the scan may have ended before, with that failure.
C3_UnclosedOpen ==
    Compiled =>
        LET c == Cmds(fp)
            dep == Depths(c)
        IN /\ compile_status = "Success" => is_empty(stack)
           /\ HasUnclosedOpen(c, dep) =>
                /\ compile_status = "Failure"
                /\ compile_line \in {109, 115, 134}
                /\ compile_line = 134 => ~is_empty(stack)
                /\ (/\ ~HasUnmatchedClose(dep)
                    /\ ~DeeperThan(dep, STACK_SIZE)
                    /\ Len(c) < PROGRAM_SIZE)
                      => compile_line = 134 /\ k > Len(text)

\* The text [[] has failed in the final check with one bracket still open.
C3_Witness ==
    /\ Compiled
    /\ Cmds(fp) = <<"[", "[", "]">>
    /\ compile_status = "Failure"
    /\ compile_line = 134
    /\ stack.ptr = 1
    /\ k > Len(text)

\* C4: capacity is enforced without truncation.  A source with PROGRAM_SIZE
\* or more commands fails to compile; after a Success the positions 0..n-1
\* hold the n commands of the source in order, position n holds OpEnd, and
\* n <= PROGRAM_SIZE - 1.
C4_Capacity ==
    Compiled =>
        LET c == Cmds(fp)
            n == Len(c)
        IN /\ n >= PROGRAM_SIZE => compile_status = "Failure"
           /\ compile_status = "Success" =>
                /\ n <= PROGRAM_SIZE - 1
                /\ cpc = n
                /\ \A i \in 0..(n - 1) :
                      InstrAt(instructions, i).operator = CommandOperator(c[i + 1])
                /\ InstrAt(instructions, n).operator = "OpEnd"

\* A source of PROGRAM_SIZE - 1 commands has compiled: the terminator is in
\* the last position of the instruction list.
C4_Witness ==
    /\ CompiledOk
    /\ cpc = PROGRAM_SIZE - 1
    /\ InstrAt(instructions, PROGRAM_SIZE - 1).operator = "OpEnd"
    /\ InstrAt(instructions, PROGRAM_SIZE - 2).operator = "OpJmpBck"

\* The other side of C4: a source of PROGRAM_SIZE commands has been refused
\* by the test of line 133.
C4_Refused ==
    /\ Compiled
    /\ Len(Cmds(fp)) = PROGRAM_SIZE
    /\ compile_line = 134
    /\ is_empty(stack)

\* The text consists of bracket pairs one after the other, and of characters
\* that are no commands.
OnlyFlatPairs(s) ==
    LET c == Cmds(s) IN
    /\ \A i \in 1..Len(c) : c[i] = (IF i % 2 = 1 THEN "[" ELSE "]")
    /\ Len(c) % 2 = 0

\* The instructions written: the entries of the list that are not Unknown.
Written == Cardinality(DOMAIN instructions)

\* C5 as stated: every source of balanced, non-nested bracket pairs and
\* comment characters compiles, to one instruction per command and a
\* terminator.
C5_AsStated ==
    Compiled =>
        (OnlyFlatPairs(fp) =>
            compile_status = "Success" /\ Written = Len(Cmds(fp)) + 1)

\* C5: every source of balanced, non-nested bracket pairs and comment
\* characters that has fewer than PROGRAM_SIZE commands compiles, to one
\* instruction per command and a terminator.
C5_FlatPairs ==
    Compiled =>
        ((OnlyFlatPairs(fp) /\ Len(Cmds(fp)) < PROGRAM_SIZE) =>
            /\ compile_status = "Success"
            /\ Written = Len(Cmds(fp)) + 1
            /\ DOMAIN instructions = 0..Len(Cmds(fp))
            /\ InstrAt(instructions, Len(Cmds(fp))).operator = "OpEnd")

\* A text of one bracket pair and comment characters has compiled.
C5_Witness ==
    /\ CompiledOk
    /\ OnlyFlatPairs(fp)
    /\ Len(Cmds(fp)) = 2
    /\ Len(Strip(fp)) > 2
    /\ Written = 3

\* The place of the first opening bracket read with d brackets open and no
\* unmatched closing bracket before it; 0 if there is none.
FirstOpenAtDepth(c, dep, d) ==
    LET at_d == {m \in 1..Len(c) :
                    /\ c[m] = "["
                    /\ DepthBefore(dep, m) = d
                    /\ \A n \in 1..(m - 1) : dep[n] >= 0}
    IN IF at_d = {} THEN 0 ELSE CHOOSE m \in at_d : \A n \in at_d : m <= n

\* C6: compile fails at an opening bracket exactly when STACK_SIZE brackets
\* are open already; a source that nests deeper than STACK_SIZE fails, and
\* one that nests to STACK_SIZE, is balanced and has fewer than PROGRAM_SIZE
\* commands compiles.
C6_Nesting ==
    Compiled =>
        LET c == Cmds(fp)
            dep == Depths(c)
            m == FirstOpenAtDepth(c, dep, STACK_SIZE)
        IN /\ compile_line = 109 <=> (m # 0 /\ m <= PROGRAM_SIZE)
           /\ compile_line = 109 =>
                /\ compile_status = "Failure"
                /\ text[k] = "["
                /\ cpc = m - 1
                /\ stack.ptr = STACK_SIZE
           /\ DeeperThan(dep, STACK_SIZE) => compile_status = "Failure"
           /\ (/\ Balanced(dep)
               /\ ~DeeperThan(dep, STACK_SIZE)
               /\ Len(c) < PROGRAM_SIZE) => compile_status = "Success"

\* The opening bracket read with STACK_SIZE brackets open has been refused.
C6_Witness ==
    /\ Compiled
    /\ compile_status = "Failure"
    /\ compile_line = 109
    /\ stack.ptr = STACK_SIZE
    /\ cpc = STACK_SIZE

\* The other side of C6: STACK_SIZE brackets within each other have
\* compiled.
C6_Deepest ==
    /\ CompiledOk
    /\ fp = Nested(STACK_SIZE)

\* The Stack holds what the plain sequence holds, bottom first.
SameAsRef ==
    /\ stack.ptr = Len(ref)
    /\ \A i \in 1..Len(ref) : At(stack.arr, i - 1, 0) = ref[i]

\* The value on top of a stack that is not empty.
Top(s) == At(s.arr, s.ptr - 1, 0)

\* C7: the Stack is a LIFO.  After any calls it holds what a plain sequence
\* holds that appends on push and drops its last element on pop; a pop that
\* succeeds returns the value on top before the call (the last element of
\* the plain sequence then, the last value pushed and not yet popped) and
\* shrinks the stack by one; a push that succeeds puts its value on top and
\* grows the stack by one.
C7_Lifo ==
    /\ SameAsRef
    /\ (last.op = "pop" /\ last.err = "None") =>
          /\ stack.ptr = last.before.ptr - 1
          /\ last.val = Some(Top(last.before))
          /\ stack.arr = last.before.arr
    /\ (last.op = "push" /\ last.err = "None") =>
          /\ stack.ptr = last.before.ptr + 1
          /\ Top(stack) = ref[Len(ref)]
          /\ \A i \in 0..(last.before.ptr - 1) :
                At(stack.arr, i, 0) = At(last.before.arr, i, 0)

\* 7 then 8 were pushed on a new Stack and popped again: 8 came first, and
\* the last pop returned 7.
C7_Witness ==
    /\ at = "stack"
    /\ calls = 4
    /\ last.op = "pop"
    /\ last.val = Some(7)
    /\ stack.ptr = 0
    /\ At(stack.arr, 1, 0) = 8

\* C8: the errors of the Stack change nothing and its size stays in range.
\* push returns OverFlow exactly on a stack of STACK_SIZE elements and pop
\* returns UnderFlow exactly on one of none, both leaving ptr and arr as
\* they were; 0 <= ptr <= STACK_SIZE always; is_empty and is_full are true
\* exactly at sizes 0 and STACK_SIZE and change nothing.
C8_StackErrors ==
    /\ 0 <= stack.ptr /\ stack.ptr <= STACK_SIZE
    /\ last.op = "push" =>
          /\ last.err = "OverFlow" <=> last.before.ptr = STACK_SIZE
          /\ last.err = "OverFlow" => stack = last.before
          /\ last.err \in {"OverFlow", "None"}
    /\ last.op = "pop" =>
          /\ last.err = "UnderFlow" <=> last.before.ptr = 0
          /\ last.err = "UnderFlow" => stack = last.before /\ last.val = None
          /\ last.err \in {"UnderFlow", "None"}
    /\ last.op = "is_empty" =>
          /\ last.bool <=> last.before.ptr = 0
          /\ stack = last.before
    /\ last.op = "is_full" =>
          /\ last.bool <=> last.before.ptr = STACK_SIZE
          /\ stack = last.before

\* A push on a stack of STACK_SIZE elements has returned OverFlow.
C8_Witness ==
    /\ at = "stack"
    /\ last.op = "push"
    /\ last.err = "OverFlow"
    /\ last.before.ptr = STACK_SIZE
    /\ stack.ptr = STACK_SIZE

\* The other cases of C8: a pop on a new Stack has returned UnderFlow, and
\* is_full has answered TRUE.
C8_UnderFlow ==
    /\ at = "stack"
    /\ last.op = "pop"
    /\ last.err = "UnderFlow"
    /\ stack = NewStack

C8_Full ==
    /\ at = "stack"
    /\ last.op = "is_full"
    /\ last.bool

\* C9: the text ++++++++[>++++++++<-]>. compiles and runs to Success and its
\* output is the one character of code point 64.  The body of the loop
\* starts at position 9; whenever it is entered cell 0 holds what is left of
\* the 8 rounds and cell 1 holds 8 for every round done, so that the body
\* runs 8 times, and at the end cell 0 is 0 and cell 1 is 64.
C9_Loop ==
    fp = LoopText =>
        /\ compile_status # "Failure"
        /\ exception = "None"
        /\ at \in {"execute", "done"} =>
              /\ InstrAt(instructions, 8) = Instruction("OpJmpFwd", 20)
              /\ InstrAt(instructions, 20) = Instruction("OpJmpBck", 8)
              /\ InstrAt(instructions, 23).operator = "OpEnd"
        /\ (at = "execute" /\ pc = 9) =>
              /\ ptr = 0
              /\ Cell(data, 0) \in 1..8
              /\ Cell(data, 1) = 8 * (8 - Cell(data, 0))
        /\ at = "done" =>
              /\ execute_status = "Success"
              /\ pc = 23
              /\ print_buffer = <<64>>
              /\ stdout = <<Printed(138, <<>>), Printed(175, <<64>>)>>
              /\ Cell(data, 0) = 0
              /\ Cell(data, 1) = 64
              /\ DOMAIN data = {1}

\* The run of that text has ended with the output of code point 64.
C9_Witness ==
    /\ fp = LoopText
    /\ at = "done"
    /\ execute_status = "Success"
    /\ print_buffer = <<64>>

\* The eighth round of the loop is about to start.
C9_LastRound ==
    /\ fp = LoopText
    /\ at = "execute"
    /\ pc = 9
    /\ Cell(data, 0) = 1
    /\ Cell(data, 1) = 56

BracketPair == <<"[", "]">>

\* C10: the program [] entered with the current cell zero runs no round of
\* its loop.  The jump-if-zero at 0 sets pc to the place of the ] (its
\* operand, 1) and the pc += 1 that follows makes the terminator at 2 the
\* next instruction; the ] is never executed, the tape and the output stay
\* empty and execute returns Success.
C10_EmptyLoop ==
    /\ [](Cmds(fp) = BracketPair =>
            /\ compile_status # "Failure"
            /\ exception = "None"
            /\ at \in {"execute", "done"} =>
                  /\ InstrAt(instructions, 0) = Instruction("OpJmpFwd", 1)
                  /\ InstrAt(instructions, 1) = Instruction("OpJmpBck", 0)
                  /\ InstrAt(instructions, 2).operator = "OpEnd"
                  /\ pc \in {0, 2}
                  /\ ptr = 0
                  /\ data = EmptyList
                  /\ print_buffer = <<>>
            /\ at = "done" =>
                  /\ pc = 2
                  /\ execute_status = "Success"
                  /\ stdout = <<Printed(138, <<>>), Printed(175, <<>>)>>)
    /\ [][(Cmds(fp) = BracketPair /\ at = "execute" /\ pc = 0) =>
            /\ at' = "execute"
            /\ pc' = InstrAt(instructions, 0).operand + 1]_vars

\* The run of a text whose commands are [] has ended at the terminator.
C10_Witness ==
    /\ Cmds(fp) = BracketPair
    /\ at = "done"
    /\ pc = 2
    /\ execute_status = "Success"
    /\ print_buffer = <<>>

----------------------------------------------------------------------------
\* C11

\* The text is some number of `+` followed by one `.` and nothing else.
IsPlusOut(s) ==
    /\ s # <<>>
    /\ s[Len(s)] = "."
    /\ \A i \in 1..Len(s) - 1 : s[i] = "+"

\* What C11 says of the run of PlusOut(n): both operations return Success,
\* ptr stays 0, no cell but cell 0 changes, cell 0 holds the increments made
\* so far, and what is printed is the one character of code point n.
PlusOutRuns ==
    /\ at # "start" => compile_status = "Success"
    /\ at # "raised"
    /\ ptr = 0
    /\ DOMAIN data \subseteq {0}
    /\ at = "execute" =>
        /\ pc <= Len(fp)
        /\ Cell(data, 0) = IF pc < Len(fp) THEN pc ELSE Len(fp) - 1
        /\ print_buffer = IF pc < Len(fp) THEN <<>> ELSE <<Len(fp) - 1>>
    /\ at = "done" =>
        /\ execute_status = "Success"
        /\ Cell(data, 0) = Len(fp) - 1
        /\ stdout = <<Printed(138, <<>>), Printed(175, <<Len(fp) - 1>>)>>

\* C11 as stated, for every n >= 0: violated by n = PROGRAM_SIZE - 1, whose
\* PROGRAM_SIZE commands compile refuses.
C11_AsStated == IsPlusOut(fp) => PlusOutRuns

\* C11, for the n that fit the instruction list: for a text of n `+` and one
\* `.`, 0 <= n <= PROGRAM_SIZE - 2, compile and execute return Success, the
\* output is exactly the character of code point n, ptr is 0 throughout and
\* no cell other than cell 0 changes.
C11_RoundTrip == IsPlusOut(fp) /\ Len(fp) < PROGRAM_SIZE => PlusOutRuns

C11_Witness ==
    /\ fp = PlusOut(3)
    /\ at = "done"
    /\ execute_status = "Success"
    /\ stdout[Len(stdout)] = Printed(175, <<3>>)

----------------------------------------------------------------------------
\* C12

\* The indices of the tape: 0..DATA_SIZE - 1.
OnTape(p) == p >= 0 /\ p < DATA_SIZE

\* C12 as stated: when execute has returned after a run that ended with the
\* data pointer outside the tape, above its top or below 0, it has returned
\* Failure.  Violated by the text `<`: ptr = -1 and Success.
C12_AsStated ==
    at = "done" /\ ~OnTape(ptr) => execute_status = "Failure"

\* The run C12 is wrong about: it ends below the tape and returns Success.
C12_BelowZero ==
    /\ at = "done"
    /\ ptr < 0
    /\ execute_status = "Success"
    /\ execute_line = 176

----------------------------------------------------------------------------
\* C13

\* C13 as stated: compile and execute stop only by returning Success or
\* Failure; no run ends in an exception that nothing catches.  Violated by
\* the text `,` with an input line that is not a number, and by `-.`.
C13_AsStated ==
    /\ at # "raised"
    /\ exception = "None"
    /\ at = "done" => execute_status \in {"Success", "Failure"}
    /\ at = "compiled" => compile_status \in {"Success", "Failure"}

\* The run C13 is wrong about: chr of a negative cell raises ValueError, and
\* execute returns nothing.
C13_Raised ==
    /\ at = "raised"
    /\ exception = "ValueError"
    /\ InstrAt(instructions, pc).operator = "OpOut"
    /\ Cell(data, ptr) < 0
    /\ execute_status = "None"

----------------------------------------------------------------------------
\* C14

\* Every position of the instruction list above n is as __init__ made it.
UnknownAbove(ins, n) ==
    \A j \in (n + 1)..(PROGRAM_SIZE - 1) : InstrAt(ins, j) = UnknownInstruction

\* C14: after a compile that returns Success with the terminator at n (the
\* value of compile's pc), every position above n holds the Unknown
\* instruction; in every state of execute 0 <= pc <= n and the instruction
\* at pc is not Unknown; execute never returns from its Unknown branch
\* (line 169).
C14_NoUnknown ==
    compile_status = "Success" =>
        /\ InstrAt(instructions, cpc).operator = "OpEnd"
        /\ \A j \in DOMAIN instructions : j >= 0 /\ j <= cpc
        /\ at = "compiled" => UnknownAbove(instructions, cpc)
        /\ at \in {"execute", "done", "raised"} =>
            /\ pc >= 0
            /\ pc <= cpc
            /\ InstrAt(instructions, pc).operator # "Unknown"
        /\ execute_line # 169

\* execute is at the terminator of a program whose loop it has been through.
C14_Witness ==
    /\ compile_status = "Success"
    /\ at = "execute"
    /\ pc = cpc
    /\ Cmds(fp) = <<"+", "[", "-", "]">>
    /\ UnknownAbove(instructions, cpc)

----------------------------------------------------------------------------
\* C15

\* How many times print_buffer has been printed (line 175).
Emissions == Cardinality({i \in 1..Len(stdout) : stdout[i].line = 175})

\* C15: print_buffer is printed exactly once when execute has returned
\* Success, as it then stands, and not at all in any other state: not while
\* the loop runs, not when execute returns Failure, not when it ends in an
\* exception.  An iteration of the loop prints nothing; on an output
\* instruction it appends one character to print_buffer, on any other it
\* leaves print_buffer as it is.
C15_OutputOnce ==
    /\ [](/\ Emissions = IF at = "done" /\ execute_status = "Success"
                          THEN 1 ELSE 0
          /\ at = "done" /\ execute_status = "Success" =>
                stdout[Len(stdout)] = Printed(175, print_buffer))
    /\ [][at = "execute" /\ at' # "done" =>
            /\ stdout' = stdout
            /\ IF InstrAt(instructions, pc).operator = "OpOut" /\ at' = "execute"
               THEN /\ Len(print_buffer') = Len(print_buffer) + 1
                    /\ SubSeq(print_buffer', 1, Len(print_buffer)) = print_buffer
               ELSE print_buffer' = print_buffer]_vars

\* Two characters were output and have been printed, once, at the return.
C15_Witness ==
    /\ at = "done"
    /\ execute_status = "Success"
    /\ Len(print_buffer) = 2
    /\ Emissions = 1
    /\ stdout[Len(stdout)].str = print_buffer

\* execute has returned Failure with a character in print_buffer, and has
\* printed nothing.
C15_FailureSilent ==
    /\ at = "done"
    /\ execute_status = "Failure"
    /\ print_buffer # <<>>
    /\ Emissions = 0

----------------------------------------------------------------------------
\* C16

\* C16: compile of a text returns the same status, leaves the same
\* instructions and the same cursor as compile of the text with every
\* character that is not a command removed; on Success the cursor is the
\* number of commands, so no other character has moved it.
C16_Comments ==
    at = "compiled" =>
        LET r == compile(NewStack, EmptyList, Cmds(fp))
        IN /\ compile_status = r.status
           /\ instructions = r.instructions
           /\ cpc = r.pc
           /\ compile_status = "Success" => cpc = Len(Cmds(fp))

\* A text with a comment at cursor 0 and one between its two commands has
\* been compiled.
C16_Witness ==
    /\ at = "compiled"
    /\ compile_status = "Success"
    /\ Len(fp) = MaxLen
    /\ ~IsCommand(fp[1])
    /\ fp[1] \notin Whitespace
    /\ \E i \in 2..Len(fp) - 1 :
        /\ ~IsCommand(fp[i])
        /\ IsCommand(fp[i - 1])
        /\ IsCommand(fp[i + 1])
    /\ cpc = 2

----------------------------------------------------------------------------
\* C17

\* C17: only the upper bound of ptr ends the loop.  With ptr below 0 and an
\* instruction other than the terminator at pc, execute does not return: the
\* loop runs the instruction.  When execute returns with ptr below 0 it is
\* at the terminator and returns Success.  With ptr at DATA_SIZE or above,
\* the only step is the return of Failure.
C17_Asymmetric ==
    /\ [](at = "done" /\ ptr < 0 =>
            /\ execute_status = "Success"
            /\ InstrAt(instructions, pc).operator = "OpEnd")
    /\ [][at = "execute" /\ ptr < 0
            /\ InstrAt(instructions, pc).operator # "OpEnd" => at' # "done"]_vars
    /\ [][at = "execute" /\ ptr >= DATA_SIZE =>
            at' = "done" /\ execute_status' = "Failure"]_vars

\* execute has written a cell with ptr below 0, reached the terminator with
\* ptr still below 0 and returned Success.
C17_Witness ==
    /\ at = "done"
    /\ execute_status = "Success"
    /\ ptr < 0
    /\ Cell(data, ptr) # 0
    /\ DOMAIN data = {DATA_SIZE + ptr}

----------------------------------------------------------------------------
\* C18

\* C18: whenever an iteration of the loop leaves pc just after a `[`, the
\* current cell is not zero, and whenever it leaves pc just after a `]`, the
\* current cell is zero; pc comes there only from a bracket, by falling
\* through it or by the jump of its partner.
C18_WhileLoop ==
    [][at = "execute" /\ at' = "execute" =>
        LET before == InstrAt(instructions, pc' - 1).operator
        IN /\ before = "OpJmpFwd" => Cell(data', ptr') # 0
           /\ before = "OpJmpBck" => Cell(data', ptr') = 0
           /\ before \in {"OpJmpFwd", "OpJmpBck"} =>
                /\ InstrAt(instructions, pc).operator \in {"OpJmpFwd", "OpJmpBck"}
                /\ data' = data
                /\ ptr' = ptr]_vars

\* The loop of LoopText has been left after its body was entered by falling
\* through the `[` and by the jump back from the `]`.
C18_Witness ==
    /\ fp = LoopText
    /\ at = "execute"
    /\ InstrAt(instructions, pc - 1).operator = "OpJmpBck"
    /\ ptr = 0
    /\ Cell(data, 0) = 0
    /\ Cell(data, 1) = 64

----------------------------------------------------------------------------
\* C19

\* C19: no step taken after compile has returned changes the instructions
\* or the jump stack, and when execute has ended, with Success, with Failure
\* or in an exception, both are what compile of the text leaves.
C19_ReadOnly ==
    /\ [][at # "start" => instructions' = instructions /\ stack' = stack]_vars
    /\ [](at \in {"done", "raised"} =>
            LET r == compile(NewStack, EmptyList, fp)
            IN instructions = r.instructions /\ stack = r.stack)

\* execute has run a loop to its end and returned; the jumps are linked as
\* compile linked them.
C19_Witness ==
    /\ at = "done"
    /\ Cmds(fp) = <<"+", "[", "-", "]">>
    /\ InstrAt(instructions, 1) = Instruction("OpJmpFwd", 3)
    /\ InstrAt(instructions, 3) = Instruction("OpJmpBck", 1)
    /\ instructions = compile(NewStack, EmptyList, fp).instructions

----------------------------------------------------------------------------
\* C20

\* C20: ptr is never above DATA_SIZE and every cell written is a cell of the
\* tape.  With ptr = DATA_SIZE no instruction is run: the one step execute
\* takes is its return, which leaves tape, pc, ptr and print_buffer as they
\* are, prints nothing and returns Failure (line 178), also when the
\* instruction at pc is the terminator.
C20_UpperBound ==
    /\ [](/\ ptr <= DATA_SIZE
          /\ \A i \in DOMAIN data : OnTape(i)
          /\ at = "done" /\ ptr = DATA_SIZE =>
                execute_status = "Failure" /\ execute_line = 178)
    /\ [][at = "execute" /\ ptr = DATA_SIZE =>
            /\ at' = "done"
            /\ execute_status' = "Failure"
            /\ execute_line' = 178
            /\ UNCHANGED <<data, pc, ptr, print_buffer, stdout, exception>>]_vars

\* The step to the right that took ptr to DATA_SIZE was the last instruction
\* of the program: the loop ended at the terminator and execute returned
\* Failure.
C20_Witness ==
    /\ at = "done"
    /\ ptr = DATA_SIZE
    /\ InstrAt(instructions, pc).operator = "OpEnd"
    /\ InstrAt(instructions, pc - 1).operator = "OpIncDp"
    /\ execute_status = "Failure"

\* The same with the loop ended in front of an instruction that is not run.
C20_NotRun ==
    /\ at = "done"
    /\ ptr = DATA_SIZE
    /\ InstrAt(instructions, pc).operator = "OpIn"
    /\ execute_status = "Failure"
    /\ data = EmptyList

====
